---- MODULE Spec2Model ----
(***************************************************************************)
(* The command channel of bride: CommandQueue (src/server/queue.rs) on top *)
(* of ServerHandle and its I/O worker thread (src/server/mod.rs).          *)
(*                                                                         *)
(* A Rust String is a sequence of symbols.  A symbol is a single character *)
(* (" ", "\n", ":", "a", "b") or one of the literals the code compares     *)
(* against ("<OK>", "<ERROR>", "<READY>", "<PAUSE>", "<EXIT>", "monster>"),*)
(* taken as one unit.  An Option<T> is a sequence of length 0 (None) or 1  *)
(* (Some).                                                                 *)
(*                                                                         *)
(* Three parties take steps: the consumer, which owns the CommandQueue and *)
(* calls its methods one at a time (connect, send, receive, update,        *)
(* disconnect); the worker thread spawned by ServerHandle::connect; and    *)
(* the remote interpreter, which sends whole frames.  That the remote has  *)
(* closed the connection shows where the code can see it: as a read of 0   *)
(* bytes once everything sent is read, or as a failed write.               *)
(***************************************************************************)
EXTENDS Integers, Sequences, FiniteSets, TLC

\* ---------------------------------------------------------------- bounds
\* number of commands the consumer enqueues in one run
MaxCmds == 2
\* number of frames the remote side sends in one run
MaxFrames == 2

\* ------------------------------------------------------------ the inputs
\* arguments the consumer passes to CommandQueue::send
CommandInputs ==
    { <<"a">>, <<" ", "b", " ">> }

\* payloads the remote side puts on the wire
FrameInputs ==
    { <<"a", " ", ":", ":", " ", "<OK>", "\n", " ", "b">>,
      <<"<READY>">>,
      <<"<PAUSE>">>,
      <<"<EXIT>">>,
      <<"monster>", " ">>,
      <<"a">>,
      <<>>,
      <<"<READY>", ":", ":", "<ERROR>">> }

\* -------------------------------------------------------- string helpers
IsWhitespace(c) == c \in {" ", "\n"}

RECURSIVE TrimStart(_)
TrimStart(s) ==
    IF s # <<>> /\ IsWhitespace(Head(s)) THEN TrimStart(Tail(s)) ELSE s

RECURSIVE TrimEnd(_)
TrimEnd(s) ==
    IF s # <<>> /\ IsWhitespace(s[Len(s)])
    THEN TrimEnd(SubSeq(s, 1, Len(s) - 1))
    ELSE s

\* str::trim
Trim(s) == TrimEnd(TrimStart(s))

\* str::starts_with with a one-symbol literal
StartsWith(s, lit) == s # <<>> /\ Head(s) = lit

\* the pieces of s between the occurrences of the one-symbol separator sep
RECURSIVE SplitOn(_, _)
SplitOn(s, sep) ==
    IF \E i \in 1..Len(s) : s[i] = sep
    THEN LET i == CHOOSE k \in 1..Len(s) :
                      s[k] = sep /\ \A j \in 1..(k - 1) : s[j] # sep
         IN  <<SubSeq(s, 1, i - 1)>> \o SplitOn(SubSeq(s, i + 1, Len(s)), sep)
    ELSE <<s>>

\* str::lines: the pieces between newlines, without a last empty piece
Lines(s) ==
    LET p == SplitOn(s, "\n")
    IN  IF p[Len(p)] = <<>> THEN SubSeq(p, 1, Len(p) - 1) ELSE p

\* str::split("::"): the pieces between the non-overlapping occurrences of
\* "::", found left to right
RECURSIVE SplitSeparator(_)
SplitSeparator(s) ==
    IF \E i \in 1..(Len(s) - 1) : s[i] = ":" /\ s[i + 1] = ":"
    THEN LET i == CHOOSE k \in 1..(Len(s) - 1) :
                      /\ s[k] = ":" /\ s[k + 1] = ":"
                      /\ \A j \in 1..(k - 1) : ~(s[j] = ":" /\ s[j + 1] = ":")
         IN  <<SubSeq(s, 1, i - 1)>> \o SplitSeparator(SubSeq(s, i + 2, Len(s)))
    ELSE <<s>>

\* the pieces of ls joined with "\n" between them
RECURSIVE JoinLines(_)
JoinLines(ls) ==
    IF ls = <<>> THEN <<>>
    ELSE IF Len(ls) = 1 THEN ls[1]
    ELSE ls[1] \o <<"\n">> \o JoinLines(Tail(ls))

\* ------------------------------------------------------------- Response
Success(h, r) == [tag |-> "Success", header |-> h, body |-> r]
Error(h, r) == [tag |-> "Error", header |-> h, body |-> r]
Nothing == [tag |-> "Nothing", header |-> <<>>, body |-> <<>>]

\* a let binding: e is evaluated once and Body is given its value
Bind(e, Body(_)) == CHOOSE r \in { Body(x) : x \in {e} } : TRUE

\* CommandQueue::analyze_response
analyze_response(response) ==
    Bind(Lines(response), LAMBDA lines :
        IF lines = <<>> THEN Nothing
        ELSE LET trimmed == [i \in 1..Len(lines) |-> Trim(lines[i])]
                 first == trimmed[1]
                 rest == JoinLines(Tail(trimmed))
             IN  Bind(SplitSeparator(first), LAMBDA parts :
                     LET header == [i \in 1..Len(parts) |-> Trim(parts[i])]
                     IN  IF Len(header) # 2 THEN Nothing
                         ELSE IF header[2] = <<"<OK>">>
                         THEN Success(header[1], rest)
                         ELSE IF header[2] = <<"<ERROR>">>
                         THEN Error(header[1], rest)
                         ELSE Nothing))

\* ---------------------------------------------------------------- state
VARIABLES
    server_state,   \* CommandQueue.server_state
    server,         \* CommandQueue.server is Some
    commands,       \* CommandQueue.commands
    waiting,        \* CommandQueue.waiting
    response,       \* CommandQueue.response
    connected,      \* ServerHandle.connected
    responses,      \* ServerHandle.responses
    cr,             \* controller channel (cs -> cr): Messages not yet received
    mr,             \* message channel (ms -> mr): payloads not yet received
    st,             \* the worker thread: where it is, or how it returned
    reader,         \* frames the remote sent that the worker has not read
    writer,         \* payloads of the frames the worker wrote to the socket
    message_size,   \* the worker's message_size while it reads a payload
    owner,          \* the consumer's hold on the CommandQueue value
    shell,          \* the Shell that owns the CommandQueue, None without one
    accepted,       \* history: the commands send() pushed, in order
    sent,           \* history: number of commands handed to ServerHandle::send
    published,      \* history: number of responses put in the response slot
    frames,         \* history: number of frames the remote sent
    ret             \* what the consumer's last call returned

vars ==
    <<server_state, server, commands, waiting, response, connected, responses,
      cr, mr, st, reader, writer, message_size, owner, shell, accepted, sent,
      published, frames, ret>>

queue_vars == <<server_state, server, commands, waiting, response>>
handle_vars == <<connected, responses, cr, mr>>
worker_vars == <<st, reader, writer, message_size>>
history_vars == <<accepted, sent, published, frames>>

\* Option<T>
None == <<>>
Some(x) == <<x>>

\* enum Message
MsgSend(m) == [kind |-> "Send", text |-> m]
MsgReceive == [kind |-> "Receive", text |-> <<>>]
MsgTerminate == [kind |-> "Terminate", text |-> <<>>]

\* what a call leaves in ret: the method called, "ok" or the error, and the
\* value of an Ok
Returned(op, result, value) == [op |-> op, result |-> result, value |-> value]

\* the worker thread is running (its ends cr and ms of the channels exist)
WorkerAlive == st \in {"main", "recv"}
\* the worker thread returned (cr and ms are dropped)
WorkerReturned == st \in {"returned_ok", "returned_err"}

Init ==
    /\ server_state = "Disconnected"
    /\ server = FALSE
    /\ commands = <<>>
    /\ waiting = None
    /\ response = None
    /\ connected = FALSE
    /\ responses = <<>>
    /\ cr = <<>>
    /\ mr = <<>>
    /\ st = "unspawned"
    /\ reader = <<>>
    /\ writer = <<>>
    /\ message_size = None
    /\ owner = "live"
    /\ shell = None
    /\ accepted = <<>>
    /\ sent = 0
    /\ published = 0
    /\ frames = 0
    /\ ret = Returned("new", "ok", None)

\* ------------------------------------------------ CommandQueue observers
\* CommandQueue::connected
is_connected == IF server THEN connected ELSE FALSE

\* internal_state with the queue looked at before the outstanding command
\* and the response slot
internal_state_queue_first ==
    IF ~is_connected THEN "Disconnected"
    ELSE IF commands # <<>> THEN "Processing"
    ELSE IF waiting # None /\ response = None THEN "WaitingForResponse"
    ELSE IF waiting = None /\ response # None THEN "WaitingForRetrieval"
    ELSE "Idle"

\* internal_state with the look at the connection last
internal_state_connection_last ==
    IF waiting # None /\ response = None THEN "WaitingForResponse"
    ELSE IF waiting = None /\ response # None THEN "WaitingForRetrieval"
    ELSE IF commands # <<>> THEN "Processing"
    ELSE IF ~is_connected THEN "Disconnected"
    ELSE "Idle"

\* internal_state with the look at the response slot after the queue: with
\* a response in the slot and a command queued it is Processing
internal_state_slot_last ==
    IF ~is_connected THEN "Disconnected"
    ELSE IF waiting # None THEN "WaitingForResponse"
    ELSE IF commands # <<>> THEN "Processing"
    ELSE IF response # None THEN "WaitingForRetrieval"
    ELSE "Idle"

\* CommandQueue::internal_state
internal_state ==
    IF ~is_connected THEN "Disconnected"
    ELSE IF waiting # None /\ response = None THEN "WaitingForResponse"
    ELSE IF waiting = None /\ response # None THEN "WaitingForRetrieval"
    ELSE IF commands # <<>> THEN "Processing"
    ELSE "Idle"

\* CommandQueue::paused
paused == server_state = "Paused"

\* CommandQueue::finished
finished == server_state = "Finished"

\* prompt without the look at the local state
prompt_remote_only == server_state = "Prompt"

\* prompt that is content with a response still in the slot
prompt_before_retrieval ==
    server_state = "Prompt" /\ internal_state \in {"Idle", "WaitingForRetrieval"}

\* CommandQueue::prompt
prompt == server_state = "Prompt" /\ internal_state = "Idle"

\* update_server_state with the states of <PAUSE> and <EXIT> exchanged
update_server_state_exchanged(message) ==
    IF StartsWith(message, "<READY>") THEN Some("Ready")
    ELSE IF StartsWith(message, "<PAUSE>") THEN Some("Finished")
    ELSE IF StartsWith(message, "<EXIT>") THEN Some("Paused")
    ELSE IF StartsWith(message, "monster>") THEN Some("Prompt")
    ELSE None

\* update_server_state with a catch-all arm that yields a state, not Err
update_server_state_catch_all(message) ==
    IF StartsWith(message, "<READY>") THEN Some("Ready")
    ELSE IF StartsWith(message, "<PAUSE>") THEN Some("Paused")
    ELSE IF StartsWith(message, "<EXIT>") THEN Some("Finished")
    ELSE IF StartsWith(message, "monster>") THEN Some("Prompt")
    ELSE Some("Idle")

\* CommandQueue::update_server_state: the new state, or None for Err
update_server_state(message) ==
    IF StartsWith(message, "<READY>") THEN Some("Ready")
    ELSE IF StartsWith(message, "<PAUSE>") THEN Some("Paused")
    ELSE IF StartsWith(message, "<EXIT>") THEN Some("Finished")
    ELSE IF StartsWith(message, "monster>") THEN Some("Prompt")
    ELSE None

\* ------------------------------------------------- ServerHandle methods
\* ServerHandle::update: the result, and what is left in responses and mr
handle_update ==
    IF connected /\ mr # <<>>
    THEN [ret |-> "ok", responses |-> Append(responses, Head(mr)), mr |-> Tail(mr)]
    ELSE IF connected /\ WorkerReturned
    THEN [ret |-> "Disconnected from server.", responses |-> responses, mr |-> mr]
    ELSE [ret |-> "ok", responses |-> responses, mr |-> mr]

\* ServerHandle::send: the result, and what is left in the controller
\* channel; a send on the channel fails once the worker has dropped cr
handle_send(message) ==
    IF ~connected THEN [ret |-> "Not connected.", cr |-> cr]
    ELSE IF WorkerAlive
    THEN [ret |-> "ok", cr |-> cr \o <<MsgSend(message), MsgReceive>>]
    ELSE [ret |-> "sending on a closed channel", cr |-> cr]

\* ------------------------------------------------- CommandQueue methods
\* connect that stores the handle and marks it connected before the
\* handshake is known to have succeeded
connect_marks_before_handshake(ok) ==
    /\ owner = "live"
    /\ IF server /\ connected
       THEN /\ server_state' = "Idle"
            /\ ret' = Returned("connect", "Already connected", None)
            /\ UNCHANGED <<server, connected, cr, st>>
       ELSE IF ok
       THEN /\ server' = TRUE
            /\ connected' = TRUE
            /\ st' = "main"
            /\ cr' = Append(cr, MsgReceive)
            /\ server_state' = "Idle"
            /\ ret' = Returned("connect", "ok", None)
       ELSE /\ server' = TRUE
            /\ connected' = TRUE
            /\ server_state' = "Idle"
            /\ ret' = Returned("connect", "connection refused", None)
            /\ UNCHANGED <<cr, st>>
    /\ UNCHANGED <<commands, waiting, response, responses, mr, reader,
                   writer, message_size, owner, shell, history_vars>>

\* CommandQueue::connect; ok is whether TcpStream::connect succeeds
queue_connect(ok) ==
    /\ owner = "live"
    /\ IF server /\ connected
       THEN /\ server_state' = "Idle"
            /\ ret' = Returned("connect", "Already connected", None)
            /\ UNCHANGED <<server, connected, cr, st>>
       ELSE IF ok
       THEN /\ server' = TRUE
            /\ connected' = TRUE
            /\ st' = "main"
            /\ cr' = Append(cr, MsgReceive)
            /\ server_state' = "Idle"
            /\ ret' = Returned("connect", "ok", None)
       ELSE /\ ret' = Returned("connect", "connection refused", None)
            /\ UNCHANGED <<server, connected, cr, st, server_state>>
    /\ UNCHANGED <<commands, waiting, response, responses, mr, reader,
                   writer, message_size, owner, history_vars>>

\* the consumer calls connect()
connect(ok) == queue_connect(ok) /\ UNCHANGED shell

\* push_back at the wrong end of the queue
push_front(queue, command) == <<Trim(command)>> \o queue

\* push_back of the command as given
push_back_untrimmed(queue, command) == Append(queue, command)

\* the queue after commands.push_back(String::from(command.trim()))
push_back(queue, command) == Append(queue, Trim(command))

\* send without the look at the remote state
send_unconditional(command) ==
    /\ owner = "live"
    /\ Len(accepted) < MaxCmds
    /\ commands' = push_back(commands, command)
    /\ accepted' = Append(accepted, Trim(command))
    /\ ret' = Returned("send", "ok", None)
    /\ UNCHANGED <<server_state, server, waiting, response, handle_vars,
                   worker_vars, owner, shell, sent, published, frames>>

\* CommandQueue::send
queue_send(command) ==
    /\ owner = "live"
    /\ paused \/ Len(accepted) < MaxCmds
    /\ IF ~paused
       THEN /\ commands' = push_back(commands, command)
            /\ accepted' = Append(accepted, Trim(command))
       ELSE UNCHANGED <<commands, accepted>>
    /\ ret' = Returned("send", "ok", None)
    /\ UNCHANGED <<server_state, server, waiting, response, handle_vars,
                   worker_vars, owner, sent, published, frames>>

\* the consumer calls send()
send(command) == queue_send(command) /\ UNCHANGED shell

\* receive that returns a copy and leaves the slot as it is
receive_copy ==
    /\ owner = "live"
    /\ ret' = Returned("receive", "ok", response)
    /\ UNCHANGED <<queue_vars, handle_vars, worker_vars, owner, shell, history_vars>>

\* CommandQueue::receive
queue_receive ==
    /\ owner = "live"
    /\ response' = None
    /\ ret' = Returned("receive", "ok", response)
    /\ UNCHANGED <<server_state, server, commands, waiting, handle_vars,
                   worker_vars, owner, history_vars>>

\* the consumer calls receive()
receive == queue_receive /\ UNCHANGED shell

\* every analysis taken for a response
is_response_always(analysis) == TRUE

\* whether update() puts the analysis of a message in the response slot
is_response(analysis) == analysis.tag # "Nothing"

\* CommandQueue::update, ClientState::Disconnected
update_disconnected(rs) ==
    /\ responses' = rs
    /\ ret' = Returned("update", "ok", None)
    /\ UNCHANGED <<server_state, commands, waiting, response, cr, sent, published>>

\* the part of update() shared by its arms: msg is taken as a sentinel
update_sentinel(msg) ==
    LET new == update_server_state(msg)
    IN  /\ server_state' = IF new = None THEN server_state ELSE new[1]
        /\ ret' = Returned("update", IF new = None THEN "Unrecognized message from server"
                        ELSE "ok", None)

\* publish without self.waiting.take()
publish_keeps_waiting(analysis) ==
    /\ response' = Some(analysis)
    /\ published' = published + 1
    /\ UNCHANGED waiting

\* self.response.replace(analysis); self.waiting.take()
publish(analysis) ==
    /\ response' = Some(analysis)
    /\ waiting' = None
    /\ published' = published + 1

\* the WaitingForResponse arm with a sentinel that ends the wait for the
\* reply: self.waiting.take() also on the sentinel path
update_waiting_for_response_sentinel_takes(rs) ==
    /\ IF rs = <<>>
       THEN /\ responses' = rs
            /\ ret' = Returned("update", "ok", None)
            /\ UNCHANGED <<server_state, waiting, response, published>>
       ELSE LET analysis == analyze_response(Head(rs))
            IN  /\ responses' = Tail(rs)
                /\ IF is_response(analysis)
                   THEN /\ publish(analysis)
                        /\ ret' = Returned("update", "ok", None)
                        /\ UNCHANGED server_state
                   ELSE /\ update_sentinel(Head(rs))
                        /\ waiting' = None
                        /\ UNCHANGED <<response, published>>
    /\ UNCHANGED <<commands, cr, sent>>

\* CommandQueue::update, ClientState::WaitingForResponse
update_waiting_for_response(rs) ==
    /\ IF rs = <<>>
       THEN /\ responses' = rs
            /\ ret' = Returned("update", "ok", None)
            /\ UNCHANGED <<server_state, waiting, response, published>>
       ELSE LET analysis == analyze_response(Head(rs))
            IN  /\ responses' = Tail(rs)
                /\ IF is_response(analysis)
                   THEN /\ publish(analysis)
                        /\ ret' = Returned("update", "ok", None)
                        /\ UNCHANGED server_state
                   ELSE /\ update_sentinel(Head(rs))
                        /\ UNCHANGED <<waiting, response, published>>
    /\ UNCHANGED <<commands, cr, sent>>

\* CommandQueue::update, ClientState::WaitingForRetrieval | ClientState::Idle
update_idle(rs) ==
    /\ IF ~prompt /\ rs # <<>>
       THEN /\ responses' = Tail(rs)
            /\ update_sentinel(Head(rs))
       ELSE /\ responses' = rs
            /\ ret' = Returned("update", "ok", None)
            /\ UNCHANGED server_state
    /\ UNCHANGED <<commands, waiting, response, cr, sent, published>>

\* the command commands.pop_back() would return
pop_back(queue) == queue[Len(queue)]

\* the command commands.pop_front() returns
pop_front(queue) == Head(queue)

\* the queue after commands.pop_front()
after_pop_front(queue) == Tail(queue)

\* the Processing arm that holds the queue back while the remote state is
\* Paused or Finished
update_processing_holds_when_paused(rs) ==
    IF server_state \in {"Paused", "Finished"}
    THEN /\ responses' = rs
         /\ ret' = Returned("update", "ok", None)
         /\ UNCHANGED <<server_state, commands, waiting, response, cr, sent,
                        published>>
    ELSE LET command == pop_front(commands)
             r == handle_send(command)
         IN  /\ commands' = after_pop_front(commands)
             /\ responses' = rs
             /\ cr' = r.cr
             /\ IF r.ret = "ok"
                THEN /\ waiting' = Some(command)
                     /\ sent' = sent + 1
                ELSE UNCHANGED <<waiting, sent>>
             /\ ret' = Returned("update", r.ret, None)
             /\ UNCHANGED <<server_state, response, published>>

\* the Processing arm that also drops the oldest buffered frame
update_processing_drops_frame(rs) ==
    LET command == pop_front(commands)
        r == handle_send(command)
    IN  /\ commands' = after_pop_front(commands)
        /\ responses' = IF rs = <<>> THEN rs ELSE Tail(rs)
        /\ cr' = r.cr
        /\ IF r.ret = "ok"
           THEN /\ waiting' = Some(command)
                /\ sent' = sent + 1
           ELSE UNCHANGED <<waiting, sent>>
        /\ ret' = Returned("update", r.ret, None)
        /\ UNCHANGED <<server_state, response, published>>

\* CommandQueue::update, ClientState::Processing
update_processing(rs) ==
    LET command == pop_front(commands)
        r == handle_send(command)
    IN  /\ commands' = after_pop_front(commands)
        /\ responses' = rs
        /\ cr' = r.cr
        /\ IF r.ret = "ok"
           THEN /\ waiting' = Some(command)
                /\ sent' = sent + 1
           ELSE UNCHANGED <<waiting, sent>>
        /\ ret' = Returned("update", r.ret, None)
        /\ UNCHANGED <<server_state, response, published>>

\* update with recv() for try_recv() in ServerHandle::update: the call waits
\* until the worker has handed a frame off or has returned
update_blocking_recv ==
    /\ owner = "live"
    /\ (server /\ connected) => (mr # <<>> \/ WorkerReturned)
    /\ LET polled == IF server THEN handle_update
                     ELSE [ret |-> "ok", responses |-> responses, mr |-> mr]
           state == internal_state
       IN  IF polled.ret # "ok"
           THEN /\ ret' = Returned("update", polled.ret, None)
                /\ UNCHANGED <<server_state, commands, waiting, response,
                               responses, cr, mr, sent, published>>
           ELSE /\ mr' = polled.mr
                /\ CASE state = "Disconnected" ->
                            update_disconnected(polled.responses)
                     [] state = "WaitingForResponse" ->
                            update_waiting_for_response(polled.responses)
                     [] state \in {"WaitingForRetrieval", "Idle"} ->
                            update_idle(polled.responses)
                     [] state = "Processing" ->
                            update_processing(polled.responses)
    /\ UNCHANGED <<server, connected, worker_vars, owner, shell, accepted, frames>>

\* CommandQueue::update
queue_update ==
    /\ owner = "live"
    /\ LET polled == IF server THEN handle_update
                     ELSE [ret |-> "ok", responses |-> responses, mr |-> mr]
           state == internal_state
       IN  IF polled.ret # "ok"
           THEN /\ ret' = Returned("update", polled.ret, None)
                /\ UNCHANGED <<server_state, commands, waiting, response,
                               responses, cr, mr, sent, published>>
           ELSE /\ mr' = polled.mr
                /\ CASE state = "Disconnected" ->
                            update_disconnected(polled.responses)
                     [] state = "WaitingForResponse" ->
                            update_waiting_for_response(polled.responses)
                     [] state \in {"WaitingForRetrieval", "Idle"} ->
                            update_idle(polled.responses)
                     [] state = "Processing" ->
                            update_processing(polled.responses)
    /\ UNCHANGED <<server, connected, worker_vars, owner, accepted, frames>>

\* the consumer calls update()
update == queue_update /\ UNCHANGED shell

\* CommandQueue::disconnect up to thread.join(): ServerHandle::disconnect
\* sends Terminate and waits for the worker, or fails and drops the value
disconnect ==
    /\ owner = "live"
    /\ IF server /\ connected /\ WorkerAlive
       THEN /\ cr' = Append(cr, MsgTerminate)
            /\ owner' = "joining"
            /\ ret' = Returned("disconnect", "joining", None)
       ELSE /\ owner' = "dropped"
            /\ ret' = Returned("disconnect", IF ~server THEN "ok"
                            ELSE IF ~connected THEN "Not connected."
                            ELSE "sending on a closed channel", None)
            /\ UNCHANGED cr
    /\ UNCHANGED <<queue_vars, connected, responses, mr, worker_vars, history_vars,
                   shell>>

\* ServerHandle::disconnect from thread.join() on: the worker has returned
join ==
    /\ owner = "joining"
    /\ WorkerReturned
    /\ owner' = "dropped"
    /\ ret' = Returned("disconnect", IF st = "returned_ok" THEN "ok" ELSE "i/o error", None)
    /\ UNCHANGED <<queue_vars, handle_vars, worker_vars, history_vars, shell>>

\* ------------------------------------------------------ the worker thread
\* one turn of 'main with a Message in the controller channel; wrote is
\* whether the write to the socket succeeds (it fails on a connection the
\* remote has closed or reset)
worker_main(wrote) ==
    /\ st = "main"
    /\ cr # <<>>
    /\ LET msg == Head(cr)
       IN  CASE msg.kind = "Terminate" ->
                    /\ st' = "returned_ok"
                    /\ cr' = <<>>
                    /\ UNCHANGED writer
             [] msg.kind = "Send" /\ wrote ->
                    /\ writer' = Append(writer, msg.text)
                    /\ cr' = Tail(cr)
                    /\ UNCHANGED st
             [] msg.kind = "Send" /\ ~wrote ->
                    /\ st' = "returned_err"
                    /\ cr' = <<>>
                    /\ UNCHANGED writer
             [] msg.kind = "Receive" ->
                    /\ st' = "recv"
                    /\ cr' = Tail(cr)
                    /\ UNCHANGED writer
    /\ UNCHANGED <<ret, queue_vars, connected, responses, mr, reader,
                   message_size, owner, shell, history_vars>>

\* a turn of 'recv that leaves 'recv after any frame
worker_recv_any_frame_ends ==
    /\ st = "recv"
    /\ reader # <<>>
    /\ LET msg == Head(reader)
       IN  /\ reader' = Tail(reader)
           /\ mr' = Append(mr, msg)
           /\ st' = "main"
    /\ UNCHANGED <<ret, queue_vars, connected, responses, cr, writer,
                   message_size, owner, shell, history_vars>>

\* one turn of 'recv with a whole frame in the stream: it is read and handed
\* off, and a prompt ends 'recv
worker_recv ==
    /\ st = "recv"
    /\ reader # <<>>
    /\ LET msg == Head(reader)
       IN  /\ reader' = Tail(reader)
           /\ mr' = Append(mr, msg)
           /\ st' = IF StartsWith(msg, "monster>") THEN "main" ELSE "recv"
    /\ UNCHANGED <<ret, queue_vars, connected, responses, cr, writer,
                   message_size, owner, shell, history_vars>>

\* one turn of 'recv in which peek returns 0 bytes, as it does once the
\* remote has closed the connection and all it sent is read: the thread
\* leaves 'main, shuts the socket down and returns
worker_recv_closed ==
    /\ st = "recv"
    /\ reader = <<>>
    /\ st' = "returned_ok"
    /\ cr' = <<>>
    /\ UNCHANGED <<ret, queue_vars, connected, responses, mr, reader, writer,
                   message_size, owner, shell, history_vars>>

\* --------------------------------------------------------- the remote side
\* the remote interpreter sends one frame
remote_send(payload) ==
    /\ WorkerAlive
    /\ frames < MaxFrames
    /\ reader' = Append(reader, payload)
    /\ frames' = frames + 1
    /\ UNCHANGED <<ret, queue_vars, handle_vars, st, writer, message_size,
                   owner, shell, accepted, sent, published>>

Next ==
    \/ \E ok \in BOOLEAN : connect(ok)
    \/ \E command \in CommandInputs : send(command)
    \/ receive
    \/ update
    \/ disconnect
    \/ join
    \/ \E wrote \in BOOLEAN : worker_main(wrote)
    \/ worker_recv
    \/ worker_recv_closed
    \/ \E payload \in FrameInputs : remote_send(payload)

Spec == Init /\ [][Next]_vars

\* Spec with the scheduling the threads can count on: the worker thread,
\* once it can take a turn of 'main or read a frame that is in the stream,
\* does so, and a join() returns once the thread has.  Nothing makes the
\* remote send a frame or close the connection, and nothing makes the
\* consumer call again.
FairSpec ==
    /\ Spec
    /\ WF_vars(\E wrote \in BOOLEAN : worker_main(wrote))
    /\ WF_vars(worker_recv)
    /\ WF_vars(join)

\* ------------------------------------------------- the wire, byte by byte
\* FrameSpec follows the worker through one command at the level of the
\* bytes on the socket.  Here a String is the sequence of its chars (Unicode
\* scalar values), writer holds the bytes the worker wrote that the remote
\* has not echoed yet, and reader the bytes that arrived at the socket and
\* were not read.  The remote echoes what it receives, byte by byte, and
\* sends frames of its own.

\* A u32 is the pair of its high and its low 16 bits.
\* n as u32
as_u32(n) == <<(n \div 65536) % 65536, n % 65536>>

\* x as usize
as_usize(x) == x[1] * 65536 + x[2]

\* const MESSAGE_DELIMITER, 0xAAAAAAAA
MESSAGE_DELIMITER == <<43690, 43690>>

\* const PROMPT_MESSAGE, "monster>"
PROMPT_MESSAGE == <<109, 111, 110, 115, 116, 101, 114, 62>>

\* length of the longest command, enough for a length field of two bytes
LongLen == 256

\* commands handed to the worker: "", "a", "e" with acute accent, the euro
\* sign and "a", a 4-byte emoji, the prompt marker, and a long one
FrameStrings ==
    { <<>>, <<97>>, <<233>>, <<8364, 97>>, <<128512>>, PROMPT_MESSAGE,
      [i \in 1..LongLen |-> 97] }

\* payloads of the frames the remote sends of its own
RemoteStrings == { <<98>>, PROMPT_MESSAGE \o <<32>> }

\* u32::to_le_bytes
to_le_bytes(x) == <<x[2] % 256, x[2] \div 256, x[1] % 256, x[1] \div 256>>

\* u32::from_le_bytes
from_le_bytes(b) == <<b[3] + 256 * b[4], b[1] + 256 * b[2]>>

\* the UTF-8 encoding of one char
encode_utf8(c) ==
    IF c < 128 THEN <<c>>
    ELSE IF c < 2048 THEN <<192 + (c \div 64), 128 + (c % 64)>>
    ELSE IF c < 65536
    THEN <<224 + (c \div 4096), 128 + ((c \div 64) % 64), 128 + (c % 64)>>
    ELSE <<240 + (c \div 262144), 128 + ((c \div 4096) % 64),
           128 + ((c \div 64) % 64), 128 + (c % 64)>>

\* str::as_bytes: the encodings of the chars, one after the other (taken
\* half by half)
RECURSIVE as_bytes(_)
as_bytes(msg) ==
    IF msg = <<>> THEN <<>>
    ELSE IF Len(msg) = 1 THEN encode_utf8(msg[1])
    ELSE Bind(Len(msg) \div 2, LAMBDA half :
             as_bytes(SubSeq(msg, 1, half))
                 \o as_bytes(SubSeq(msg, half + 1, Len(msg))))

\* the number of bytes of the UTF-8 sequence that starts with byte b, 0 when
\* no sequence starts with it
utf8_char_width(b) ==
    IF b < 128 THEN 1
    ELSE IF b >= 194 /\ b <= 223 THEN 2
    ELSE IF b >= 224 /\ b <= 239 THEN 3
    ELSE IF b >= 240 /\ b <= 244 THEN 4
    ELSE 0

\* the char a whole UTF-8 sequence encodes, None when it encodes none
decode_utf8(b) ==
    LET continues(k) == b[k] >= 128 /\ b[k] <= 191
        w == Len(b)
        c == IF w = 1 THEN b[1]
             ELSE IF w = 2 THEN (b[1] - 192) * 64 + (b[2] - 128)
             ELSE IF w = 3
             THEN (b[1] - 224) * 4096 + (b[2] - 128) * 64 + (b[3] - 128)
             ELSE (b[1] - 240) * 262144 + (b[2] - 128) * 4096
                  + (b[3] - 128) * 64 + (b[4] - 128)
    IN  IF \E k \in 2..w : ~continues(k) THEN None
        ELSE IF w = 3 /\ (c < 2048 \/ (c >= 55296 /\ c <= 57343)) THEN None
        ELSE IF w = 4 /\ (c < 65536 \/ c > 1114111) THEN None
        ELSE Some(c)

\* String::from_utf8: Some(string), or None for Err(FromUtf8Error).  In
\* valid UTF-8 a char starts at each byte that is not a continuation byte
\* (128..191) and takes that byte and the continuation bytes behind it.
from_utf8(bytes) ==
    LET continuation(p) == bytes[p] >= 128 /\ bytes[p] <= 191
        \* the number of continuation bytes right behind p, 4 for 4 or more
        behind(p) == CHOOSE k \in 0..4 :
                         /\ \A j \in 1..k :
                                p + j <= Len(bytes) /\ continuation(p + j)
                         /\ \/ k = 4
                            \/ p + k + 1 > Len(bytes)
                            \/ ~continuation(p + k + 1)
        char(p) == IF utf8_char_width(bytes[p]) = 1 + behind(p)
                   THEN decode_utf8(SubSeq(bytes, p, p + behind(p)))
                   ELSE None
    IN  Bind(SelectSeq([p \in 1..Len(bytes) |-> p],
                       LAMBDA p : ~continuation(p)),
             LAMBDA starts :
                 IF bytes # <<>> /\ continuation(1) THEN None
                 ELSE IF \E i \in 1..Len(starts) : char(starts[i]) = None
                 THEN None
                 ELSE Some([i \in 1..Len(starts) |-> char(starts[i])[1]]))

\* message_bytes with the number of chars in the length field
message_bytes_char_count(msg) ==
    to_le_bytes(MESSAGE_DELIMITER) \o to_le_bytes(as_u32(Len(msg)))
        \o as_bytes(msg)

\* the frame the worker builds for Message::Send(msg)
message_bytes(msg) ==
    to_le_bytes(MESSAGE_DELIMITER) \o to_le_bytes(as_u32(Len(as_bytes(msg))))
        \o as_bytes(msg)

\* msg.starts_with(PROMPT_MESSAGE)
starts_with_prompt(msg) ==
    /\ Len(msg) >= Len(PROMPT_MESSAGE)
    /\ SubSeq(msg, 1, Len(PROMPT_MESSAGE)) = PROMPT_MESSAGE

\* the worker is in 'main with the command s in the controller channel:
\* connect() succeeded, the remote sent a prompt, update() took it, s was
\* queued and update() handed it over
FrameInit ==
    \E s \in FrameStrings :
        /\ server_state = "Prompt"
        /\ server = TRUE
        /\ commands = <<>>
        /\ waiting = Some(s)
        /\ response = None
        /\ connected = TRUE
        /\ responses = <<>>
        /\ cr = <<MsgSend(s), MsgReceive>>
        /\ mr = <<>>
        /\ st = "main"
        /\ reader = <<>>
        /\ writer = <<>>
        /\ message_size = None
        /\ owner = "live"
        /\ shell = None
        /\ accepted = <<s>>
        /\ sent = 1
        /\ published = 0
        /\ frames = 1
        /\ ret = Returned("update", "ok", None)

\* one turn of 'main, with the bytes of the Send arm
worker_main_bytes(wrote) ==
    /\ st = "main"
    /\ cr # <<>>
    /\ LET msg == Head(cr)
       IN  CASE msg.kind = "Terminate" ->
                    /\ st' = "returned_ok"
                    /\ cr' = <<>>
                    /\ UNCHANGED writer
             [] msg.kind = "Send" /\ wrote ->
                    /\ writer' = writer \o message_bytes(msg.text)
                    /\ cr' = Tail(cr)
                    /\ UNCHANGED st
             [] msg.kind = "Send" /\ ~wrote ->
                    /\ st' = "returned_err"
                    /\ cr' = <<>>
                    /\ UNCHANGED writer
             [] msg.kind = "Receive" ->
                    /\ st' = "recv"
                    /\ cr' = Tail(cr)
                    /\ UNCHANGED writer
    /\ UNCHANGED <<ret, queue_vars, connected, responses, mr, reader,
                   message_size, owner, shell, history_vars>>

\* one turn of 'recv in which peek fills the 8 bytes: they are consumed,
\* and with the delimiter in the first four the worker goes on to read
\* message_size bytes.  (A peek of 1 to 7 bytes changes nothing.)
worker_peek ==
    /\ st = "recv"
    /\ Len(reader) >= 8
    /\ LET header == SubSeq(reader, 1, 4)
           length == SubSeq(reader, 5, 8)
       IN  /\ reader' = SubSeq(reader, 9, Len(reader))
           /\ IF from_le_bytes(header) = MESSAGE_DELIMITER
              THEN /\ message_size' = Some(as_usize(from_le_bytes(length)))
                   /\ st' = "read_exact"
              ELSE UNCHANGED <<message_size, st>>
    /\ UNCHANGED <<ret, queue_vars, connected, responses, cr, mr, writer,
                   owner, shell, history_vars>>

\* a short peek followed by read_exact of what it saw instead of another
\* peek: the bytes that arrived are taken off the stream
worker_peek_short_consumes ==
    /\ st = "recv"
    /\ Len(reader) \in 1..7
    /\ reader' = <<>>
    /\ UNCHANGED <<ret, queue_vars, handle_vars, st, writer, message_size,
                   owner, shell, history_vars>>

\* one turn of 'recv in which peek returns 1 to 7 bytes: n is neither
\* peek_buffer.len() nor 0, so no branch is taken and the loop goes round
worker_peek_short ==
    /\ st = "recv"
    /\ Len(reader) \in 1..7
    /\ UNCHANGED <<ret, queue_vars, handle_vars, st, reader, writer,
                   message_size, owner, shell, history_vars>>

\* reader.read_exact(&mut read_buffer) returns once message_size bytes have
\* arrived; the bytes are decoded and the message handed off
worker_read_exact ==
    /\ st = "read_exact"
    /\ Len(reader) >= message_size[1]
    /\ LET read_buffer == SubSeq(reader, 1, message_size[1])
           msg == from_utf8(read_buffer)
       IN  /\ reader' = SubSeq(reader, message_size[1] + 1, Len(reader))
           /\ message_size' = None
           /\ IF msg = None
              THEN /\ st' = "returned_err"
                   /\ cr' = <<>>
                   /\ UNCHANGED mr
              ELSE /\ mr' = Append(mr, msg[1])
                   /\ st' = IF starts_with_prompt(msg[1]) THEN "main" ELSE "recv"
                   /\ UNCHANGED cr
    /\ UNCHANGED <<ret, queue_vars, connected, responses, writer, owner, shell,
                   history_vars>>

\* read_exact fails with UnexpectedEof: the remote closed the connection
\* before message_size bytes arrived
worker_read_exact_closed ==
    /\ st = "read_exact"
    /\ Len(reader) < message_size[1]
    /\ st' = "returned_err"
    /\ cr' = <<>>
    /\ message_size' = None
    /\ UNCHANGED <<ret, queue_vars, connected, responses, mr, reader, writer,
                   owner, shell, history_vars>>

\* the remote echoes the oldest byte it received and has not echoed
echo ==
    /\ writer # <<>>
    /\ reader' = Append(reader, Head(writer))
    /\ writer' = Tail(writer)
    /\ UNCHANGED <<ret, queue_vars, handle_vars, st, message_size, owner, shell,
                   history_vars>>

\* the remote sends a frame of its own, between two echoes
remote_send_bytes(payload) ==
    /\ st \in {"main", "recv", "read_exact"}
    /\ writer = <<>>
    /\ frames < MaxFrames
    /\ reader' = reader \o message_bytes(payload)
    /\ frames' = frames + 1
    /\ UNCHANGED <<ret, queue_vars, handle_vars, st, writer, message_size,
                   owner, shell, accepted, sent, published>>

\* 8 bytes the remote can send where a header is expected and whose first
\* four are not the delimiter: a wrong first byte, and a wrong last byte in
\* front of a length of 1
BadHeaders ==
    { <<171, 170, 170, 170, 0, 0, 0, 0>>, <<170, 170, 170, 0, 1, 0, 0, 0>> }

\* the remote sends 8 bytes that are not the header of a frame, between two
\* echoes
remote_send_bad_header(bytes) ==
    /\ st \in {"main", "recv", "read_exact"}
    /\ writer = <<>>
    /\ frames < MaxFrames
    /\ reader' = reader \o bytes
    /\ frames' = frames + 1
    /\ UNCHANGED <<ret, queue_vars, handle_vars, st, writer, message_size,
                   owner, shell, accepted, sent, published>>

FrameNext ==
    \/ \E wrote \in BOOLEAN : worker_main_bytes(wrote)
    \/ worker_peek
    \/ worker_peek_short
    \/ worker_read_exact
    \/ worker_read_exact_closed
    \/ worker_recv_closed
    \/ echo
    \/ \E payload \in RemoteStrings : remote_send_bytes(payload)
    \/ \E bytes \in BadHeaders : remote_send_bad_header(bytes)

FrameSpec == FrameInit /\ [][FrameNext]_vars

\* --------------------------------------------------- the payload, parsed
\* ParseSpec follows one payload from the stream to the consumer.  A command
\* is outstanding, the remote has sent a frame with the payload, and the
\* consumer calls update(), takes the response with receive() and
\* decomposes it.

\* the parts a payload is put together from: what stands in front of the
\* first line, the header, the separator, the status, and the other lines
ParseLeads == { <<>>, <<" ">>, <<"\n">> }
ParseHeaders ==
    { <<>>, <<"a">>, <<"a", " ", "b">>, <<"a", " ", " ", "b", " ", "a">>,
      <<"<READY>">>, <<"a", ":", "b">> }
ParseSeparators ==
    { <<>>, <<":">>, <<":", ":">>, <<" ", ":", ":", " ">>, <<":", ":", ":">>,
      <<":", ":", ":", ":">>, <<":", " ", ":">> }
ParseStatuses ==
    { <<>>, <<"<OK>">>, <<"<ERROR>">>, <<"a">>, <<"<OK>", "a">>,
      <<"<OK>", " ">>, <<"<OK>", ":", ":", "<OK>">>, <<"<ERROR>", ":", ":">> }
ParseRests ==
    { <<>>, <<"\n">>, <<"\n", " ", "b", " ">>, <<"\n", "\n">>,
      <<"\n", "a", " ", "b", "\n", "\n", " ", "b">> }

\* the payloads of ParseSpec
ParseInputs ==
    FrameInputs \cup
    { l \o h \o p \o t \o r :
          l \in ParseLeads, h \in ParseHeaders, p \in ParseSeparators,
          t \in ParseStatuses, r \in ParseRests }

\* str::rsplit_once(char::is_whitespace): the split at the last whitespace
rsplit_once_whitespace(c) ==
    IF \E i \in 1..Len(c) : IsWhitespace(c[i])
    THEN LET i == CHOOSE k \in 1..Len(c) :
                      /\ IsWhitespace(c[k])
                      /\ \A j \in (k + 1)..Len(c) : ~IsWhitespace(c[j])
         IN  Some(<<SubSeq(c, 1, i - 1), SubSeq(c, i + 1, Len(c))>>)
    ELSE None

\* str::split_once(char::is_whitespace): what stands before and behind the
\* first whitespace, None without one
split_once_whitespace(c) ==
    IF \E i \in 1..Len(c) : IsWhitespace(c[i])
    THEN LET i == CHOOSE k \in 1..Len(c) :
                      /\ IsWhitespace(c[k])
                      /\ \A j \in 1..(k - 1) : ~IsWhitespace(c[j])
         IN  Some(<<SubSeq(c, 1, i - 1), SubSeq(c, i + 1, Len(c))>>)
    ELSE None

\* Response::identifier
identifier(r) ==
    LET c == r.header
        split == split_once_whitespace(c)
    IN  IF split # None THEN split[1][1] ELSE c

\* Response::args
args(r) ==
    LET c == r.header
        split == split_once_whitespace(c)
    IN  IF split # None THEN split[1][2] ELSE <<>>

\* Response::result
result(r) == r.body

\* Response::decompose
decompose(r) == <<r.tag = "Error", identifier(r), args(r), result(r)>>

\* the consumer decomposes the response its receive() returned
decompose_received ==
    /\ owner = "live"
    /\ ret.op = "receive"
    /\ ret.value # None
    /\ ret' = Returned("decompose", "ok", Some(decompose(ret.value[1])))
    /\ UNCHANGED <<queue_vars, handle_vars, worker_vars, owner, shell, history_vars>>

\* a prompt was taken, the command "a" was handed over and written, the
\* worker is back in 'recv and the remote has sent the payload
ParseInit ==
    \E payload \in ParseInputs :
        /\ server_state = "Prompt"
        /\ server = TRUE
        /\ commands = <<>>
        /\ waiting = Some(<<"a">>)
        /\ response = None
        /\ connected = TRUE
        /\ responses = <<>>
        /\ cr = <<>>
        /\ mr = <<>>
        /\ st = "recv"
        /\ reader = <<payload>>
        /\ writer = <<<<"a">>>>
        /\ message_size = None
        /\ owner = "live"
        /\ shell = None
        /\ accepted = <<<<"a">>>>
        /\ sent = 1
        /\ published = 0
        /\ frames = 2
        /\ ret = Returned("update", "ok", None)

ParseNext ==
    \/ worker_recv
    \/ update
    \/ receive
    \/ decompose_received

ParseSpec == ParseInit /\ [][ParseNext]_vars

\* ------------------------------------------------------------- the shell
\* ShellSpec has the line-oriented shell as the consumer.  shell is
\* Some of a record with the field state of struct Shell, the local
\* response_received of interactive_loop, and at: where the loop is
\* ("interact" in front of queue.update(), "match" in front of the match on
\* the state, "returned_ok" and "returned_err" once the loop has returned).
\* The field prompt_since_send is history: whether update() has taken a
\* prompt marker as a sentinel since it last handed a command over.

\* Shell::new, and interactive_loop up to 'interact: the result of
\* connect() is dropped
new_shell(ok) ==
    /\ shell = None
    /\ queue_connect(ok)
    /\ shell' = Some([state |-> "Read", response_received |-> TRUE,
                      at |-> "interact", prompt_since_send |-> FALSE])

\* 'interact: self.queue.update()? and the look at finished()
interact_update ==
    /\ shell # None
    /\ shell[1].at = "interact"
    /\ queue_update
    /\ shell' = Some([shell[1] EXCEPT
           !.at = IF ret'.result # "ok" THEN "returned_err"
                  ELSE IF server_state' = "Finished" THEN "returned_ok"
                  ELSE "match",
           !.prompt_since_send =
                  IF sent' # sent THEN FALSE
                  ELSE IF /\ Len(responses') + Len(mr') < Len(responses) + Len(mr)
                          /\ published' = published
                          /\ ret'.result = "ok"
                          /\ StartsWith(Head(responses \o mr), "monster>")
                  THEN TRUE
                  ELSE @])

\* ShellState::Read: a response is taken and printed, or the shell goes
\* over to Write on prompt() once a response was received
interact_read ==
    /\ shell # None
    /\ shell[1].at = "match"
    /\ shell[1].state = "Read"
    /\ queue_receive
    /\ shell' = Some([shell[1] EXCEPT
           !.at = "interact",
           !.response_received = IF response # None THEN TRUE ELSE @,
           !.state = IF response = None /\ prompt /\ shell[1].response_received
                     THEN "Write" ELSE @])

\* ShellState::Write, readline returns Ok(line): the line is queued
interact_write(line) ==
    /\ shell # None
    /\ shell[1].at = "match"
    /\ shell[1].state = "Write"
    /\ queue_send(line)
    /\ shell' = Some([shell[1] EXCEPT
           !.at = "interact", !.state = "Read", !.response_received = FALSE])

\* ShellState::Write, readline returns Err (end of input, interrupt): the
\* loop is left with Ok
interact_eof ==
    /\ shell # None
    /\ shell[1].at = "match"
    /\ shell[1].state = "Write"
    /\ shell' = Some([shell[1] EXCEPT !.at = "returned_ok"])
    /\ UNCHANGED <<ret, queue_vars, handle_vars, worker_vars, owner,
                   history_vars>>

ShellNext ==
    \/ \E ok \in BOOLEAN : new_shell(ok)
    \/ interact_update
    \/ interact_read
    \/ \E line \in CommandInputs : interact_write(line)
    \/ interact_eof
    \/ \E wrote \in BOOLEAN : worker_main(wrote)
    \/ worker_recv
    \/ worker_recv_closed
    \/ \E payload \in FrameInputs : remote_send(payload)

ShellSpec == Init /\ [][ShellNext]_vars

\* ShellSpec with the scheduling the threads can count on: the loop of the
\* shell goes on while it is not inside readline, the user at some time
\* enters a line or ends the input, and the worker takes its turns as in
\* FairSpec.  Nothing makes the remote send a frame or close the connection.
FairShellSpec ==
    /\ ShellSpec
    /\ WF_vars(interact_update)
    /\ WF_vars(interact_read)
    /\ WF_vars((\E line \in CommandInputs : interact_write(line)) \/ interact_eof)
    /\ WF_vars(\E wrote \in BOOLEAN : worker_main(wrote))
    /\ WF_vars(worker_recv)

\* ------------------------------------------------------------ properties
\* a is an initial segment of b
IsPrefix(a, b) == Len(a) <= Len(b) /\ SubSeq(b, 1, Len(a)) = a

\* s without its first i and its last j symbols is s trimmed: the symbols
\* left out are whitespace, the first and the last symbol kept are not
IsTrimBy(s, i, j) ==
    /\ \A k \in 1..i : IsWhitespace(s[k])
    /\ \A k \in (Len(s) - j + 1)..Len(s) : IsWhitespace(s[k])
    /\ i + j < Len(s) => (~IsWhitespace(s[i + 1]) /\ ~IsWhitespace(s[Len(s) - j]))

RealResponse(r) == r.tag \in {"Success", "Error"}

\* the frames the worker handed off that update() has not taken, oldest first
Buffered == responses \o mr

\* this step takes the oldest handed-off frame (only update() does)
ConsumesFrame == Len(responses') + Len(mr') < Len(responses) + Len(mr)

\* msg starts with one of the four sentinel prefixes
HasSentinelPrefix(msg) ==
    msg # <<>> /\ Head(msg) \in {"<READY>", "<PAUSE>", "<EXIT>", "monster>"}

\* the remote state the spec gives for a frame with a sentinel prefix
SentinelState(msg) ==
    CASE Head(msg) = "<READY>" -> "Ready"
      [] Head(msg) = "<PAUSE>" -> "Paused"
      [] Head(msg) = "<EXIT>" -> "Finished"
      [] Head(msg) = "monster>" -> "Prompt"

\* C1: in every reachable state the channel does not have both an
\* outstanding command (waiting is Some) and a published response
\* (response is Some).
C1_MutualExclusion == ~(waiting # None /\ response # None)

\* a response was published while a second command was queued
C1_Witness ==
    /\ response # None
    /\ waiting = None
    /\ published = 1
    /\ commands # <<>>

\* C2: single-flight.  The commands handed to the transport exceed the
\* responses published by at most one, and from a state with an outstanding
\* command and a non-empty queue (which reads WaitingForResponse) no step
\* hands a command to the transport or takes one out of the queue.
C2_SingleFlight ==
    [][/\ sent' <= published' + 1
       /\ (is_connected /\ waiting # None /\ commands # <<>>) =>
              /\ internal_state = "WaitingForResponse"
              /\ sent' = sent
              /\ IsPrefix(commands, commands')]_vars

\* the consumer's last call was an update() that took a frame with a command
\* outstanding and another one queued
C2_Witness ==
    /\ ret.op = "update"
    /\ ret.result = "Unrecognized message from server"
    /\ internal_state = "WaitingForResponse"
    /\ commands # <<>>
    /\ sent = 1
    /\ published = 0

C4_NeverNothing ==
    /\ response # None => RealResponse(response[1])
    /\ ret.value # None => RealResponse(ret.value[1])

\* receive() returned a response after the remote had sent two frames
C4_Witness ==
    /\ ret.op = "receive"
    /\ ret.value # None
    /\ frames = 2

\* C5: receive() returns what the response slot held and leaves it None,
\* changes nothing else of the channel, and returns None when the consumer's
\* previous call was receive() too.
C5_TakeResponse ==
    [][receive =>
          /\ ret'.value = response
          /\ response' = None
          /\ ret.op = "receive" => ret'.value = None
          /\ UNCHANGED <<server_state, server, commands, waiting, handle_vars,
                         worker_vars>>]_vars

\* receive() returned a response and the slot is empty
C5_Witness ==
    /\ ret.op = "receive"
    /\ ret.value # None
    /\ response = None

\* C6: a send() made while the remote state is Paused changes no field of
\* the channel: not the queue, not the outstanding command, not the
\* response slot, not the remote state, and nothing of the transport.
C6_PausedDrops ==
    [][\A command \in CommandInputs :
          (server_state = "Paused" /\ send(command)) =>
              UNCHANGED <<queue_vars, handle_vars, worker_vars, accepted>>]_vars

\* the consumer's last call was a send() made in Paused
C6_Witness ==
    /\ ret.op = "send"
    /\ server_state = "Paused"

\* C7: a send() made while the remote state is not Paused appends the
\* trimmed command at the tail of the queue, in every local state, and
\* leaves the outstanding command, the response slot and the remote state.
C7_EnqueueAppends ==
    [][\A command \in CommandInputs :
          (server_state # "Paused" /\ send(command)) =>
              /\ \E i \in 0..Len(command) : \E j \in 0..(Len(command) - i) :
                     /\ IsTrimBy(command, i, j)
                     /\ commands' =
                            commands \o <<SubSeq(command, i + 1, Len(command) - j)>>
              /\ UNCHANGED <<server_state, server, waiting, response>>]_vars

\* a command given with whitespace around it was queued, trimmed, behind
\* another one while a command was outstanding
C7_Witness ==
    /\ ret.op = "send"
    /\ internal_state = "WaitingForResponse"
    /\ Len(commands) = 1
    /\ commands[1] = <<"b">>
    /\ waiting = Some(<<"a">>)

\* C8: update() on a channel that is not connected leaves the queue as it
\* is; the first update() that hands a command over on a connected channel
\* with two or more commands queued hands over the head alone and leaves
\* the rest queued, reading WaitingForResponse; and WaitingForResponse is
\* left only by an update() that publishes a Success or an Error.
C8_QueuedUntilConnected ==
    [][/\ (~is_connected /\ update) => UNCHANGED <<commands, cr, sent>>
       /\ (is_connected /\ sent = 0 /\ Len(commands) >= 2 /\ update
             /\ ret'.result = "ok") =>
              /\ waiting' = Some(commands[1])
              /\ cr' = cr \o <<MsgSend(commands[1]), MsgReceive>>
              /\ commands' = Tail(commands)
              /\ sent' = 1
              /\ internal_state' = "WaitingForResponse"
       /\ internal_state = "WaitingForResponse" =>
              \/ internal_state' = "WaitingForResponse"
              \/ /\ update
                 /\ response' # None
                 /\ RealResponse(response'[1])]_vars

\* the first of two commands is outstanding, the second is queued, and an
\* update() made after both were accepted took a <PAUSE> frame
C8_Witness ==
    /\ ret.op = "update"
    /\ server_state = "Paused"
    /\ internal_state = "WaitingForResponse"
    /\ Len(accepted) = 2
    /\ waiting = Some(accepted[1])
    /\ commands = <<accepted[2]>>

\* C9: prompt() is true exactly when the remote state is Prompt, the
\* channel is connected, no command is outstanding, no response awaits
\* retrieval and the queue is empty.
C9_PromptIffIdle ==
    prompt <=> /\ server_state = "Prompt"
               /\ is_connected
               /\ waiting = None
               /\ response = None
               /\ commands = <<>>

\* prompt() is true after an update()
C9_Witness ==
    /\ prompt
    /\ ret.op = "update"
    /\ sent = 1

\* C10: once finished() is true it is true after every later step.
C10_FinishedAbsorbing == [][finished => finished']_vars

\* C11: an update() that takes a frame which is neither a Success or Error
\* response nor starts with a sentinel prefix returns the "Unrecognized
\* message from server" error, publishes nothing, and leaves the remote
\* state, the outstanding command and the queue as they were.
C11_UnrecognizedMessage ==
    [][(/\ ConsumesFrame
        /\ ~RealResponse(analyze_response(Head(Buffered)))
        /\ ~HasSentinelPrefix(Head(Buffered))) =>
            /\ ret' = Returned("update", "Unrecognized message from server", None)
            /\ UNCHANGED <<server_state, waiting, commands, response, published>>]_vars

\* an update() made with a command outstanding and the remote state Paused
\* took an unrecognized frame: the command is outstanding and the state
\* Paused still
C11_Witness ==
    /\ ret = Returned("update", "Unrecognized message from server", None)
    /\ internal_state = "WaitingForResponse"
    /\ server_state = "Paused"
    /\ commands = <<>>
    /\ frames = 2

\* C12: errors of update() are sticky.  When the consumer's last call was an
\* update() that returned an error, the update() it makes next (after any
\* steps of the worker and the remote) returns an error too, and publishes
\* no response.
C12_StickyErrors ==
    [][(ret.op = "update" /\ ret.result # "ok" /\ update) =>
           /\ ret'.result # "ok"
           /\ published' = published]_vars

\* C13: once the worker has returned on a read of 0 bytes made with a
\* command outstanding (the channel reads WaitingForResponse), connected()
\* is false and every update() returns the Disconnected error.
C13_PeerCloseReported ==
    [][(/\ st = "returned_ok"
        /\ owner = "live"
        /\ waiting # None
        /\ response = None) =>
            /\ ~is_connected
            /\ update => ret'.result = "Disconnected from server."]_vars

\* C14 as stated: an update() that takes a frame starting with a sentinel
\* prefix sets the remote state by the mapping <READY> to Ready, <PAUSE> to
\* Paused, <EXIT> to Finished, "monster>" to Prompt, and publishes no
\* response, with a command outstanding or without.
C14_SentinelMapping ==
    [][(ConsumesFrame /\ HasSentinelPrefix(Head(Buffered))) =>
           /\ server_state' = SentinelState(Head(Buffered))
           /\ response' = response
           /\ published' = published]_vars

\* C14 amended: the same, except for a frame taken while a command is
\* outstanding whose first line parses as a Success or Error response.
C14_SentinelMappingOfNonResponses ==
    [][(/\ ConsumesFrame
        /\ HasSentinelPrefix(Head(Buffered))
        /\ ~(waiting # None /\ RealResponse(analyze_response(Head(Buffered))))) =>
            /\ server_state' = SentinelState(Head(Buffered))
            /\ response' = response
            /\ published' = published]_vars

\* an update() made with a command outstanding took a <READY> frame: the
\* remote state is Ready and nothing was published
C14_Witness ==
    /\ ret = Returned("update", "ok", None)
    /\ server_state = "Ready"
    /\ waiting # None
    /\ response = None
    /\ published = 0

\* C15: an update() that processes a sentinel frame (a frame with a sentinel
\* prefix, other than a Success or Error response taken with a command
\* outstanding) leaves the outstanding command, the response slot and the
\* queue exactly as they were, and hands nothing to the transport.
C15_SentinelKeepsBookkeeping ==
    [][(/\ ConsumesFrame
        /\ HasSentinelPrefix(Head(Buffered))
        /\ ~(waiting # None /\ RealResponse(analyze_response(Head(Buffered))))) =>
            UNCHANGED <<waiting, response, commands, cr, sent, published>>]_vars

\* an <EXIT> frame was taken between a command and its reply, with another
\* command queued: the command is outstanding still
C15_Witness ==
    /\ ret = Returned("update", "ok", None)
    /\ server_state = "Finished"
    /\ waiting # None
    /\ commands # <<>>
    /\ sent = 1

\* C16: sentinels are applied immediately.  When the oldest frame the worker
\* has handed off is a sentinel frame, the next update() sets the remote
\* state of that sentinel, in every local state and every remote state.
C16_SentinelsImmediate ==
    [][(/\ update
        /\ is_connected
        /\ Buffered # <<>>
        /\ HasSentinelPrefix(Head(Buffered))
        /\ ~RealResponse(analyze_response(Head(Buffered)))) =>
            server_state' = SentinelState(Head(Buffered))]_vars

\* C17: while no connect() has succeeded the channel is unconnected
\* (connected() false, remote state and local state Disconnected), and only
\* a successful connect() ends that.  A connect() that fails on an
\* unconnected channel returns an error and changes nothing of the channel,
\* so it can be made again; one that succeeds makes connected() true, sets
\* the remote state to Idle and keeps the queue.
C17_ConnectLifecycle ==
    [][/\ ~is_connected =>
              /\ server_state = "Disconnected"
              /\ internal_state = "Disconnected"
       /\ (~is_connected /\ is_connected') =>
              /\ connect(TRUE)
              /\ ret' = Returned("connect", "ok", None)
       /\ (~is_connected /\ connect(FALSE)) =>
              /\ ret'.op = "connect"
              /\ ret'.result # "ok"
              /\ ~is_connected'
              /\ owner' = "live"
              /\ UNCHANGED <<queue_vars, handle_vars, worker_vars>>
       /\ (~is_connected /\ connect(TRUE)) =>
              /\ ret' = Returned("connect", "ok", None)
              /\ is_connected'
              /\ server_state' = "Idle"
              /\ internal_state' # "Disconnected"
              /\ UNCHANGED <<commands, waiting, response>>]_vars

\* a connect() succeeded on a channel with a command queued: the command is
\* queued still and the remote state is Idle
C17_Witness ==
    /\ ret = Returned("connect", "ok", None)
    /\ is_connected
    /\ server_state = "Idle"
    /\ commands # <<>>
    /\ st = "main"

\* C18: disconnect() is unconditional.  A disconnect() that has sent
\* Terminate and waits for the worker eventually returns, with the worker
\* thread returned, in whatever phase the worker was.
C18_DisconnectReturns ==
    (owner = "joining") ~> (owner = "dropped" /\ WorkerReturned)

\* C19: update() never blocks.  In every reachable state in which the
\* consumer holds the channel an update() call can complete as the next
\* step, with no step of the worker or the remote before it: while the
\* worker sits in a read, is inside its receive loop, has control messages
\* it has not looked at, or has returned.  Every state an update() leaves
\* is such a state, so the call can be made again at once.
C19_UpdateNeverBlocks == owner = "live" => ENABLED update

\* an update() returned while the worker sat in its receive loop with
\* nothing to read and with control messages it had not looked at
C19_Witness ==
    /\ ret = Returned("update", "ok", None)
    /\ st = "recv"
    /\ reader = <<>>
    /\ mr = <<>>
    /\ cr # <<>>
    /\ waiting # None

\* the UTF-8 bytes of each string that is sent, and the frame written for it
Utf8Of == [s \in FrameStrings \cup RemoteStrings |-> as_bytes(s)]
FrameOf == [s \in FrameStrings \cup RemoteStrings |-> message_bytes(s)]

\* C20: the framing round trip.  The worker writes for a string s the bytes
\* AA AA AA AA, the number of UTF-8 bytes of s as a u32 in little-endian
\* order, and the UTF-8 bytes of s.  When the bytes at the head of the
\* stream are the ones written for s, the receive path consumes the 8 header
\* bytes alone and then the bytes of s alone, hands off exactly s, and
\* leaves what follows in the stream, where the next frame is read the same
\* way.
C20_FramingRoundTrip ==
    [][\A s \in FrameStrings \cup RemoteStrings :
          /\ (worker_main_bytes(TRUE) /\ Head(cr) = MsgSend(s)) =>
                 \E frame \in {SubSeq(writer', Len(writer) + 1, Len(writer'))} :
                     /\ SubSeq(writer', 1, Len(writer)) = writer
                     /\ SubSeq(frame, 1, 4) = <<170, 170, 170, 170>>
                     /\ \E n \in {Len(frame) - 8} :
                            SubSeq(frame, 5, 8) =
                                <<n % 256, (n \div 256) % 256,
                                  (n \div 65536) % 256, n \div 16777216>>
                     /\ SubSeq(frame, 9, Len(frame)) = Utf8Of[s]
          /\ (worker_peek /\ IsPrefix(FrameOf[s], reader)) =>
                 /\ st' = "read_exact"
                 /\ message_size' = Some(Len(Utf8Of[s]))
                 /\ reader' = SubSeq(reader, 9, Len(reader))
                 /\ mr' = mr
          /\ (/\ worker_read_exact
              /\ message_size = Some(Len(Utf8Of[s]))
              /\ IsPrefix(Utf8Of[s], reader)) =>
                 /\ mr' = Append(mr, s)
                 /\ reader' = SubSeq(reader, Len(Utf8Of[s]) + 1, Len(reader))
                 /\ message_size' = None]_vars

\* the echo of a command with a char of several bytes was handed off as the
\* command itself, the frame of the remote right behind it was handed off
\* too, and no byte is left
C20_Witness ==
    /\ Len(mr) = 2
    /\ mr[1] = accepted[1]
    /\ Len(as_bytes(mr[1])) > Len(mr[1])
    /\ mr[2] \in RemoteStrings
    /\ st = "recv"
    /\ reader = <<>>
    /\ writer = <<>>
    /\ message_size = None

\* a is an initial segment of b and shorter than b
IsStrictPrefix(a, b) == Len(a) < Len(b) /\ IsPrefix(a, b)

\* C21: a partial frame is "not yet".  While the bytes available to the
\* receive path are a strict prefix of the frame written for a string s
\* (with the header read: of the payload of s), every step other than a read
\* that finds the stream closed hands off no message, does not end the
\* worker with an error, and takes no byte that arrived off the stream unless
\* the 8 header bytes are there; then the header alone is taken and the
\* worker waits for the payload.
C21_PartialFrameWaits ==
    [][\A s \in FrameStrings \cup RemoteStrings :
          /\ (/\ st = "recv"
              /\ IsStrictPrefix(reader, FrameOf[s])
              /\ ~worker_recv_closed) =>
                 /\ mr' = mr
                 /\ st' \in {"recv", "read_exact"}
                 /\ IF Len(reader) < 8
                    THEN st' = "recv" /\ IsPrefix(reader, reader')
                    ELSE \/ UNCHANGED <<st, message_size>> /\ IsPrefix(reader, reader')
                         \/ /\ st' = "read_exact"
                            /\ message_size' = Some(Len(Utf8Of[s]))
                            /\ reader' = SubSeq(reader, 9, Len(reader))
          /\ (/\ st = "read_exact"
              /\ message_size = Some(Len(Utf8Of[s]))
              /\ IsStrictPrefix(reader, Utf8Of[s])
              /\ ~worker_read_exact_closed) =>
                 /\ mr' = mr
                 /\ UNCHANGED <<st, message_size>>
                 /\ IsPrefix(reader, reader')]_vars

\* the worker has read the header of a frame with a payload of 4 bytes, 3 of
\* them have arrived, and nothing was handed off
C21_Witness ==
    /\ st = "read_exact"
    /\ message_size = Some(4)
    /\ Len(reader) = 3
    /\ mr = <<>>
    /\ cr = <<>>

\* C22: a header without the delimiter is fatal.  When the worker takes 8
\* bytes off the stream whose first four are not AA AA AA AA, the receive
\* path stops: the worker thread returns with an error (which update()
\* reports), and does not go on to read the bytes behind them as a header.
C22_BadMagicFatal ==
    [][(worker_peek /\ SubSeq(reader, 1, 4) # <<170, 170, 170, 170>>) =>
           st' = "returned_err"]_vars

\* the first line of payload p, trimmed
TrimmedFirstLine(p) == Trim(Lines(p)[1])

\* the lines of p behind the first, each trimmed, joined with newlines
TrimmedRest(p) ==
    LET lines == Lines(p)
    IN  JoinLines([i \in 1..(Len(lines) - 1) |-> Trim(lines[i + 1])])

\* t has "::" at i, and splitting t on "::" gives two parts: what stands in
\* front of i and what stands behind i + 1
SplitsInTwoAt(t, i) ==
    /\ t[i] = ":" /\ t[i + 1] = ":"
    /\ \A k \in 1..(Len(t) - 1) :
           (t[k] = ":" /\ t[k + 1] = ":") => (k = i \/ k = i + 1)
    /\ i + 2 <= Len(t) => t[i + 2] # ":"

\* the response C23 gives for payload p: Success or Error when the trimmed
\* first line splits in two non-empty trimmed parts, the second the signal
\* of the variant; Nothing for every other payload
ExpectedAnalysis(p) ==
    IF Lines(p) = <<>> THEN Nothing
    ELSE LET t == TrimmedFirstLine(p)
             Shape(i, signal) ==
                 /\ SplitsInTwoAt(t, i)
                 /\ Trim(SubSeq(t, 1, i - 1)) # <<>>
                 /\ Trim(SubSeq(t, i + 2, Len(t))) = <<signal>>
         IN  IF \E i \in 1..(Len(t) - 1) : Shape(i, "<OK>")
             THEN LET i == CHOOSE k \in 1..(Len(t) - 1) : Shape(k, "<OK>")
                  IN  Success(Trim(SubSeq(t, 1, i - 1)), TrimmedRest(p))
             ELSE IF \E i \in 1..(Len(t) - 1) : Shape(i, "<ERROR>")
             THEN LET i == CHOOSE k \in 1..(Len(t) - 1) : Shape(k, "<ERROR>")
                  IN  Error(Trim(SubSeq(t, 1, i - 1)), TrimmedRest(p))
             ELSE Nothing

\* C23: the analysis of a payload.  An update() that takes a payload with a
\* command outstanding publishes Success(header, body) or Error(header,
\* body) exactly when the trimmed first line splits on "::" into two
\* non-empty trimmed parts, header and <OK> or <ERROR>, with body the other
\* lines trimmed and joined with newlines; for every other payload the
\* analysis is Nothing and the response slot stays empty.
C23_AnalyzeShape ==
    [][(update /\ internal_state = "WaitingForResponse" /\ ConsumesFrame) =>
           LET expected == ExpectedAnalysis(Head(Buffered))
           IN  /\ analyze_response(Head(Buffered)) = expected
               /\ response' = IF expected = Nothing THEN None ELSE Some(expected)]_vars

\* C24: decomposition.  For a response r that receive() returned,
\* decompose() yields (is_error, identifier, args, body): is_error is true
\* exactly for an Error; identifier is the first whitespace-delimited token
\* of the header (it starts the header, holds no whitespace, and ends at the
\* end of the header or in front of a whitespace); args is what stands
\* behind the first whitespace of the header, empty when there is none; body
\* is the body of r.  For Nothing it yields (false, "", "", "").
C24_Decompose ==
    [][/\ decompose(Nothing) = <<FALSE, <<>>, <<>>, <<>>>>
       /\ decompose_received =>
              \E r \in {ret.value[1]} : \E d \in {ret'.value[1]} :
                  /\ ret' = Returned("decompose", "ok", Some(d))
                  /\ d[1] = (r.tag = "Error")
                  /\ r.tag \in {"Success", "Error"}
                  /\ IsPrefix(d[2], r.header)
                  /\ \A k \in 1..Len(d[2]) : ~IsWhitespace(d[2][k])
                  /\ r.header # <<>> => d[2] # <<>>
                  /\ IF \E k \in 1..Len(r.header) : IsWhitespace(r.header[k])
                     THEN /\ IsWhitespace(r.header[Len(d[2]) + 1])
                          /\ d[3] = SubSeq(r.header, Len(d[2]) + 2, Len(r.header))
                     ELSE /\ d[2] = r.header
                          /\ d[3] = <<>>
                  /\ d[4] = r.body]_vars

\* an Error with a header of three tokens, the first two with two spaces
\* between them, and a body of two lines was decomposed
C24_Witness ==
    /\ ret.op = "decompose"
    /\ ret.value # None
    /\ ret.value[1][1] = TRUE
    /\ ret.value[1][2] = <<"a">>
    /\ ret.value[1][3] = <<" ", "b", " ", "a">>
    /\ \E k \in 1..Len(ret.value[1][4]) : ret.value[1][4][k] = "\n"

\* C27: an update() made in Processing takes exactly the head of the queue
\* off, hands exactly that command to the transport (a Send with it, and the
\* Receive that asks for the reply), records it as the outstanding command,
\* leaves the other queue entries, the response slot and the remote state as
\* they were, and the local state reads WaitingForResponse afterwards.
C27_ProcessingSendsHead ==
    [][(update /\ internal_state = "Processing") =>
           /\ commands' = Tail(commands)
           /\ cr' = cr \o <<MsgSend(Head(commands)), MsgReceive>>
           /\ waiting' = Some(Head(commands))
           /\ sent' = sent + 1
           /\ UNCHANGED <<response, server_state>>
           /\ internal_state' = "WaitingForResponse"]_vars

\* C28: an update() that takes a frame whose analysis is a Success or an
\* Error publishes that response in the response slot and returns Ok, in
\* whatever local state the frame is taken: with a command outstanding, with
\* none (Idle), or with an earlier response not yet taken.
C28_ResponsesPublished ==
    [][(ConsumesFrame /\ RealResponse(analyze_response(Head(Buffered)))) =>
           /\ response' = Some(analyze_response(Head(Buffered)))
           /\ ret' = Returned("update", "ok", None)]_vars

\* C29: the local state is a function of four observations with a fixed
\* priority: Disconnected when not connected, whatever the others are; else
\* WaitingForResponse when a command is outstanding; else
\* WaitingForRetrieval when a response is published; else Processing when
\* the queue is not empty; else Idle.  An update() made when not connected
\* returns Ok and changes nothing of the channel.
C29_LocalStatePriority ==
    /\ [](internal_state =
              IF ~is_connected THEN "Disconnected"
              ELSE IF waiting # None THEN "WaitingForResponse"
              ELSE IF response # None THEN "WaitingForRetrieval"
              ELSE IF commands # <<>> THEN "Processing"
              ELSE "Idle")
    /\ [][(update /\ ~is_connected) =>
              /\ internal_state = "Disconnected"
              /\ ret' = Returned("update", "ok", None)
              /\ UNCHANGED <<queue_vars, handle_vars, worker_vars, owner,
                             history_vars>>]_vars

\* an update() was made on a channel that is not connected and has two
\* commands queued
C29_Witness ==
    /\ ret = Returned("update", "ok", None)
    /\ ~is_connected
    /\ internal_state = "Disconnected"
    /\ Len(commands) = 2

\* C30: one frame for one Receive.  The worker, serving a Receive request,
\* reads one frame, hands one item off and is then back in 'main, where it
\* serves the next request (Send, Receive or Terminate): the step that reads
\* a frame and hands it off ends the request, and a request ended by the
\* loss of the connection hands nothing else off.
C30_OneFramePerReceive ==
    [][/\ worker_recv => (st' = "main" /\ Len(mr') = Len(mr) + 1)
       /\ worker_recv_closed => (st' # "recv" /\ mr' = mr)]_vars

\* C25 as stated: prompt() does not race a command.  In the shell, once
\* update() has handed a command over, prompt() is true only when the reply
\* to it has been taken and update() has, since that hand-over, taken a
\* prompt marker; a remote state Prompt from before the hand-over does not
\* make it true.
C25_ReadyNeedsFreshPrompt ==
    (shell # None /\ sent >= 1 /\ prompt) =>
        /\ shell[1].response_received
        /\ shell[1].prompt_since_send

\* C25 amended: in the shell, prompt() is true only when every command
\* handed over has had its reply published, the reply has been taken and
\* no command is outstanding; with that, a remote state Prompt makes it
\* true, be it from a prompt marker taken since the hand-over or from
\* before it.
C25_ReadyAfterReplyTaken ==
    (shell # None /\ prompt) =>
        /\ published = sent
        /\ response = None
        /\ waiting = None

\* the shell is in Write for the second time: the reply to its first
\* command was taken, prompt() was true, and no prompt marker was taken
\* since the command was handed over
C25_Witness ==
    /\ shell # None
    /\ shell[1].state = "Write"
    /\ prompt
    /\ sent = 1
    /\ published = 1
    /\ ~shell[1].prompt_since_send

\* C26: a failed or dropped connection ends the interactive loop of the
\* shell.  When the connect() of Shell::new has failed (there is a shell
\* and no ServerHandle) the loop comes to return an error, and when the
\* worker has returned (the connection is lost) the loop comes to return;
\* it never polls the queue for ever.
C26_ShellTerminates ==
    /\ (shell # None /\ ~server)
          ~> (shell # None /\ shell[1].at = "returned_err")
    /\ (shell # None /\ WorkerReturned)
          ~> (shell # None /\ shell[1].at \in {"returned_err", "returned_ok"})

\* C31: the hand-off between worker and dispatcher is single-slot.  At most
\* one decoded frame is buffered between them, counting the message channel
\* from the worker and the responses buffer of the ServerHandle.
C31_SingleSlotHandOff == Len(mr) + Len(responses) <= 1

\* C32: the worker writes a command frame only outside a receive phase, and
\* a receive phase ends only with a frame that starts with the prompt marker
\* or with the loss of the connection.  A write is a turn of 'main; when the
\* thread is spawned and after every write the next Message in the
\* controller channel is Receive, so a receive phase comes before any
\* further write; and 'recv is left for 'main only by handing off a frame
\* that starts with the prompt marker, otherwise by the thread returning.
C32_WritesOutsideReceive ==
    [][ /\ (writer' # writer) =>
              /\ st = "main" /\ st' = "main"
              /\ cr' # <<>> /\ Head(cr').kind = "Receive"
        /\ (st = "unspawned" /\ st' # "unspawned") =>
              /\ st' = "main"
              /\ cr' # <<>> /\ Head(cr').kind = "Receive"
        /\ (st = "recv" /\ st' # "recv") =>
              \/ /\ st' = "main"
                 /\ Len(mr') = Len(mr) + 1
                 /\ StartsWith(mr'[Len(mr')], "monster>")
              \/ st' \in {"returned_ok", "returned_err"}
      ]_vars

\* a command was handed to the worker in a receive phase, the remote sent
\* two frames, neither with the prompt marker, the worker handed both off
\* and is still in 'recv, and the command is not written
C32_Witness ==
    /\ st = "recv"
    /\ \E i \in 1..Len(cr) : cr[i].kind = "Send"
    /\ writer = <<>>
    /\ reader = <<>>
    /\ frames = 2
    /\ Len(mr) = 2
    /\ \A i \in 1..2 : ~StartsWith(mr[i], "monster>")

\* C33: no decoded frame is lost on peer close.  When update() returns the
\* disconnection error, every frame the worker handed off has been consumed
\* by the dispatcher: none is left in the message channel or in the
\* responses buffer of the ServerHandle.
C33_NoFrameLostOnClose ==
    (ret.op = "update" /\ ret.result = "Disconnected from server.") =>
        (mr = <<>> /\ responses = <<>>)

\* C34: connect() on a channel that is connected returns the "Already
\* connected" error, opens no connection (no thread is spawned, nothing is
\* put in the controller channel) and leaves the remote state, the queue,
\* the outstanding command and the published response as they were.
C34_ConnectAgainNoChange ==
    [][((\E ok \in BOOLEAN : connect(ok)) /\ server /\ connected) =>
           /\ ret' = Returned("connect", "Already connected", None)
           /\ UNCHANGED <<server_state, commands, waiting, response, st, cr>>
      ]_vars

\* C35: a published response is never overwritten or discarded.  update()
\* publishes only into an empty slot, and a response in the slot stays as it
\* is in every step but the receive() that returns it and empties the slot:
\* each published response is delivered once.
C35_PublishedResponseKept ==
    [][ /\ (published' # published) => (response = None /\ response' # None)
        /\ (response # None) =>
              \/ response' = response
              \/ /\ receive
                 /\ ret'.value = response
                 /\ response' = None
      ]_vars

\* a response is in the slot and the last call was an update() that took a
\* further frame and returned an error for it: the response was published
\* before that call and is still there
C35_Witness ==
    /\ response # None
    /\ published = 1
    /\ frames = 2
    /\ ret = Returned("update", "Unrecognized message from server", None)

\* C36: update() sends no command while a published response awaits
\* retrieval.  In a step that starts with a response in the slot no command
\* is handed to the ServerHandle, none becomes outstanding and none leaves
\* the queue; an update() with a command queued and the response untaken
\* leaves the channel in WaitingForRetrieval.
C36_NoSendBeforeRetrieval ==
    [][(response # None) =>
           /\ sent' = sent
           /\ waiting' = waiting
           /\ IsPrefix(commands, commands')
           /\ (update /\ internal_state = "WaitingForRetrieval" /\ commands # <<>>) =>
                  internal_state' = "WaitingForRetrieval"
      ]_vars

\* a response is in the slot, a command is queued behind it, and the last
\* call was an update() that took a frame: the command was not sent
C36_Witness ==
    /\ response # None
    /\ commands # <<>>
    /\ sent = 1
    /\ internal_state = "WaitingForRetrieval"
    /\ ret = Returned("update", "Unrecognized message from server", None)

C38_PausedStillSends ==
    [][(update /\ internal_state = "Processing" /\ WorkerAlive) =>
           /\ commands' = Tail(commands)
           /\ cr' = cr \o <<MsgSend(Head(commands)), MsgReceive>>
           /\ waiting' = Some(Head(commands))
           /\ sent' = sent + 1
           /\ server_state' = server_state
           /\ ret' = Returned("update", "ok", None)
      ]_vars

\* both commands were accepted before the remote state became Paused (a
\* send() in Paused accepts none); the reply to the first was published and
\* taken, and the second was handed to the worker by the last update() and
\* is outstanding, with the remote state Paused
C38_Witness ==
    /\ server_state = "Paused"
    /\ Len(accepted) = 2
    /\ sent = 2
    /\ waiting = Some(accepted[2])
    /\ published = 1
    /\ commands = <<>>
    /\ ret = Returned("update", "ok", None)

====
